---- MODULE Spec2Model ----
(***************************************************************************)
(* Model of the medical-claim chatbot core (src/main.py, src/app.py):      *)
(* the response normalizer, the document extraction pipeline, the total    *)
(* parser, the conversation manager driven by the session handlers, and    *)
(* the assistant output formatter.                                         *)
(*                                                                         *)
(* Text is a sequence of one-character strings.  A few fixed literals of   *)
(* the source are carried as one symbol each ("SYSTEM_PROMPT", "POLICY:",  *)
(* "BILL:", "Breakdown:", the label words of the total parser).            *)
(***************************************************************************)
EXTENDS Integers, Sequences, FiniteSets, TLC

VARIABLES
    chat_history,   \* st.session_state.chat_history: sequence of messages
    bill_text,      \* st.session_state.bill_text
    policy,         \* the policy selected in the sidebar
    composer,       \* st.session_state["composer"], the chat input widget
    PYMUPDF_OK,     \* whether the optional PDF library was importable
    lastOp,         \* the handler that ran last; for a send its outcome, the
                    \* reply and the history it gave to the chat client
    lastCall,       \* last chat invocation: message 0's content, bill text
    prevCall,       \* the same for the chat invocation before that
    resetPending,   \* a reset happened and no send has succeeded since
    arg,            \* input of the pure function under test
    res,            \* its result
    res2            \* the result of applying the formatter a second time

vars == <<chat_history, bill_text, policy, composer, PYMUPDF_OK, lastOp,
          lastCall, prevCall, resetPending, arg, res, res2>>

sessionVars == <<chat_history, bill_text, policy, composer, lastOp,
                 lastCall, prevCall, resetPending>>

\* ----------------------------------------------------------------------
\* Bounds
\* ----------------------------------------------------------------------
MaxHist == 4        \* a send is taken only while the history is shorter
MaxPages == 2       \* pages of a PDF document
MaxFmtLen == 5      \* symbols of a text given to the formatter
MaxLines == 2       \* lines of a text given to the total parser

\* ----------------------------------------------------------------------
\* Text helpers
\* ----------------------------------------------------------------------
Absent == <<"<absent>">>     \* the attribute or key does not exist
None == <<"<None>">>         \* the attribute or key holds None

IsSpace(c) == c \in {" ", "\n"}

RECURSIVE lstrip(_)
lstrip(s) == IF s # <<>> /\ IsSpace(Head(s)) THEN lstrip(Tail(s)) ELSE s

RECURSIVE rstrip(_)
rstrip(s) ==
    IF s # <<>> /\ IsSpace(s[Len(s)]) THEN rstrip(SubSeq(s, 1, Len(s) - 1)) ELSE s

strip(s) == rstrip(lstrip(s))

\* ----------------------------------------------------------------------
\* Response normalizer: main.py _resp_text
\* ----------------------------------------------------------------------
\* A response is [kind, hasChoices, choices, content, repr]:
\*   kind "obj"  : attributes only (hasattr), not a dict
\*   kind "dict" : a plain dict, keys only
\* A candidate is [msg, msgContent, text]; msg is "absent", "object" (an
\* object with attributes) or "dict".  Fields hold Absent, None or a text.
\* repr is what str(resp) gives.

Returned(v) == [how |-> "return", val |-> v]
Raised == [how |-> "raise", val |-> <<>>]
FellThrough == [how |-> "fall", val |-> <<>>]

\* x.strip() for a field value x: None has no strip and raises
StripOf(v) == IF v = None THEN Raised ELSE Returned(strip(v))

\* lines 40-45: the attribute-style candidate
ObjChoice(ch) ==
    IF ch.msg = "object" /\ ch.msgContent # Absent
        THEN StripOf(ch.msgContent)
    ELSE IF ch.text # Absent
        THEN StripOf(ch.text)
    ELSE FellThrough

\* lines 46-51: the dict-style candidate
DictChoice(ch) ==
    IF ch.msg = "dict"
        THEN StripOf(IF ch.msgContent = Absent THEN <<>> ELSE ch.msgContent)
    ELSE IF ch.text # Absent
        THEN StripOf(ch.text)
    ELSE FellThrough

\* lines 39-53: the body of the try block
TryBlock(resp) ==
    LET first ==
            IF resp.kind = "obj" /\ resp.hasChoices /\ resp.choices # <<>>
                THEN ObjChoice(resp.choices[1])
                ELSE FellThrough
        second ==
            IF resp.kind = "dict" /\ resp.hasChoices
                THEN IF resp.choices = <<>>
                        THEN Raised
                        ELSE DictChoice(resp.choices[1])
                ELSE FellThrough
        third ==
            IF resp.kind = "obj" /\ resp.content # Absent
                THEN StripOf(resp.content)
                ELSE FellThrough
    IN  IF first.how # "fall" THEN first
        ELSE IF second.how # "fall" THEN second
        ELSE third

\* the single except clause swallows any failure; line 56 is the fallback
_resp_text(resp) ==
    LET t == TryBlock(resp)
    IN  IF t.how = "return" THEN t.val ELSE strip(resp.repr)

\* ----------------------------------------------------------------------
\* Document extraction pipeline: main.py extract_text_from_image,
\* extract_text_from_pdf
\* ----------------------------------------------------------------------
\* A page (or an image) is [native, ok, resp]: its embedded text, whether
\* the vision invocation made for its raster succeeds, and what it answers.
\* A call of the vision client is logged as [page, have]: the page it is
\* for and the number of page texts collected when it is issued.

Separator == <<"\n", "\n">>
Sentinel == <<"PDF OCR requires pip install pymupdf">>

\* lines 59-69: one invocation, no retry; a failing invocation raises
extract_text_from_image(img) ==
    IF img.ok THEN Returned(_resp_text(img.resp)) ELSE Raised

\* the page texts joined last page first
RECURSIVE join_Reversed(_)
join_Reversed(pages) ==
    IF pages = <<>> THEN <<>>
    ELSE IF Len(pages) = 1 THEN pages[1]
    ELSE join_Reversed(Tail(pages)) \o Separator \o pages[1]

\* line 86: "\n\n".join(pages)
RECURSIVE join(_)
join(pages) ==
    IF pages = <<>> THEN <<>>
    ELSE IF Len(pages) = 1 THEN pages[1]
    ELSE pages[1] \o Separator \o join(Tail(pages))

\* a page goes to the vision client whenever its text is not empty
NeedsOcr_Empty(native) == native = <<>>

\* line 80: the page has no native text once white space is stripped
NeedsOcr(native) == strip(native) = <<>>

\* lines 78-85: the loop over the pages, from page i on
RECURSIVE PdfLoop(_, _, _, _)
PdfLoop(doc, i, pages, calls) ==
    IF i > Len(doc)
        THEN [raised |-> FALSE, pages |-> pages, calls |-> calls]
    ELSE IF ~NeedsOcr(doc[i].native)
        THEN PdfLoop(doc, i + 1, Append(pages, doc[i].native), calls)
    ELSE LET issued == Append(calls, [page |-> i, have |-> Len(pages)])
             ocr == extract_text_from_image(doc[i])
         IN  IF ocr.how = "raise"
                 THEN [raised |-> TRUE, pages |-> pages, calls |-> issued]
                 ELSE PdfLoop(doc, i + 1, Append(pages, ocr.val), issued)

\* lines 72-86; the result carries the log of vision calls
extract_text_from_pdf(file, pdfOk) ==
    IF ~pdfOk
        THEN [raised |-> FALSE, text |-> Sentinel, calls |-> <<>>]
    ELSE IF ~file.readable
        THEN [raised |-> TRUE, text |-> <<>>, calls |-> <<>>]
    ELSE LET r == PdfLoop(file.pages, 1, <<>>, <<>>)
         IN  [raised |-> r.raised,
              text |-> IF r.raised THEN <<>> ELSE join(r.pages),
              calls |-> r.calls]

\* ----------------------------------------------------------------------
\* Conversation manager: main.py chat_with_history
\* ----------------------------------------------------------------------
Message(role, content) == [role |-> role, content |-> content]

\* json.dumps(policy): the record's fields in order, on one line
dumps(p) == <<"{", p.insurer, ",", p.plan, "}">>

\* line 151
system_msg(p, bill) ==
    <<"SYSTEM_PROMPT">> \o <<"\n", "\n", "POLICY:", "\n">> \o dumps(p)
        \o <<"\n", "\n", "BILL:", "\n">> \o bill \o <<"\n">>

\* a context message is put in front on every turn
WithContext_AlwaysInsert(history, p, bill) ==
    <<Message("system", system_msg(p, bill))>> \o history

\* the context is set once and never rebuilt
WithContext_InsertOnce(history, p, bill) ==
    IF history = <<>> \/ history[1].role # "system"
        THEN <<Message("system", system_msg(p, bill))>> \o history
        ELSE history

\* lines 153-156: insert or refresh message 0
WithContext(history, p, bill) ==
    IF history = <<>> \/ history[1].role # "system"
        THEN <<Message("system", system_msg(p, bill))>> \o history
        ELSE [history EXCEPT ![1].content = system_msg(p, bill)]

\* the chat client is asked before the user message is appended
chat_with_history_AskFirst(history, p, bill, user_input, chat) ==
    LET given == WithContext(history, p, bill)
        asked == Append(given, Message("user", user_input))
        reply == _resp_text(chat.resp)
    IN  IF chat.ok
            THEN [raised |-> FALSE, given |-> given, reply |-> reply,
                  history |-> Append(asked, Message("assistant", reply))]
            ELSE [raised |-> TRUE, given |-> given, reply |-> <<>>,
                  history |-> asked]

\* a failing invocation takes the new user message back
chat_with_history_RollBack(history, p, bill, user_input, chat) ==
    LET asked == Append(WithContext(history, p, bill), Message("user", user_input))
        reply == _resp_text(chat.resp)
    IN  IF chat.ok
            THEN [raised |-> FALSE, given |-> asked, reply |-> reply,
                  history |-> Append(asked, Message("assistant", reply))]
            ELSE [raised |-> TRUE, given |-> asked, reply |-> <<>>,
                  history |-> WithContext(history, p, bill)]

\* lines 150-164.  chat is [ok, resp]: whether chat_client.invoke answers,
\* and with what.  The result holds the history the call leaves behind,
\* the history the chat client was given, and the reply or the failure.
chat_with_history(history, p, bill, user_input, chat) ==
    LET asked == Append(WithContext(history, p, bill), Message("user", user_input))
        reply == _resp_text(chat.resp)
    IN  IF chat.ok
            THEN [raised |-> FALSE, given |-> asked, reply |-> reply,
                  history |-> Append(asked, Message("assistant", reply))]
            ELSE [raised |-> TRUE, given |-> asked, reply |-> <<>>,
                  history |-> asked]

\* ----------------------------------------------------------------------
\* Inputs of the session
\* ----------------------------------------------------------------------
Policies ==
    {[insurer |-> "Acme", plan |-> "Gold"], [insurer |-> "Zen", plan |-> "Basic"]}

\* what the user may type into the composer
ComposerTexts == {<<"h", "i">>, <<" ", "q", "\n">>}

\* a response object whose first candidate carries a message with content c
ObjMessage(c) ==
    [kind |-> "obj", hasChoices |-> TRUE,
     choices |-> <<[msg |-> "object", msgContent |-> c, text |-> Absent]>>,
     content |-> Absent, repr |-> <<"<", "r", ">">>]

\* a response object that only exposes a top-level content
ObjContent(c) ==
    [kind |-> "obj", hasChoices |-> FALSE, choices |-> <<>>,
     content |-> c, repr |-> <<"<", "r", ">">>]

\* what chat_client.invoke may do: fail, or answer
ChatOutcomes ==
    {[ok |-> FALSE, resp |-> ObjMessage(None)],
     [ok |-> TRUE, resp |-> ObjMessage(<<" ", "o", "k", "\n">>)],
     [ok |-> TRUE, resp |-> ObjMessage(None)]}

NativePage(t) == [native |-> t, ok |-> TRUE, resp |-> ObjContent(<<>>)]
ScannedPage(t) == [native |-> <<>>, ok |-> TRUE, resp |-> ObjContent(t)]
FailingPage == [native |-> <<"\n">>, ok |-> FALSE, resp |-> ObjContent(<<>>)]

NoFile == [type |-> "none", readable |-> TRUE, pages |-> <<>>]

\* what the user may have put into the uploader
Uploads ==
    {NoFile,
     [type |-> "image", readable |-> TRUE, pages |-> <<ScannedPage(<<"7", " ">>)>>],
     [type |-> "image", readable |-> TRUE, pages |-> <<FailingPage>>],
     [type |-> "image", readable |-> FALSE, pages |-> <<>>],
     [type |-> "pdf", readable |-> TRUE,
      pages |-> <<NativePage(<<"a", "\n">>), ScannedPage(<<" ", "b">>)>>],
     [type |-> "pdf", readable |-> TRUE,
      pages |-> <<NativePage(<<"a", "\n">>), FailingPage>>]}

NoCallYet == [made |-> FALSE, sys |-> <<>>, bill |-> <<>>]
Op(op, outcome) ==
    [op |-> op, outcome |-> outcome, text |-> <<>>, reply |-> <<>>, given |-> <<>>]
NoOp == Op("none", "none")
Other == Op("other", "done")

\* ----------------------------------------------------------------------
\* Session handlers: app.py
\* ----------------------------------------------------------------------
\* lines 78-80, 119-121: a fresh session
Init ==
    /\ chat_history = <<>>
    /\ bill_text = <<>>
    /\ policy \in Policies
    /\ composer = <<>>
    /\ PYMUPDF_OK \in BOOLEAN
    /\ lastOp = NoOp
    /\ lastCall = NoCallYet
    /\ prevCall = NoCallYet
    /\ resetPending = FALSE
    /\ arg = <<>>
    /\ res = <<>>
    /\ res2 = <<>>

\* lines 230-236: the user edits the composer
Type(t) ==
    /\ composer' = t
    /\ lastOp' = Other
    /\ UNCHANGED <<chat_history, bill_text, policy, PYMUPDF_OK, lastCall,
                   prevCall, resetPending, arg, res, res2>>

\* lines 119-121: the user picks another insurer or plan
SelectPolicy(p) ==
    /\ policy' = p
    /\ lastOp' = Other
    /\ UNCHANGED <<chat_history, bill_text, composer, PYMUPDF_OK, lastCall,
                   prevCall, resetPending, arg, res, res2>>

\* lines 159-161
Clear ==
    /\ bill_text' = <<>>
    /\ lastOp' = Other
    /\ UNCHANGED <<chat_history, policy, composer, PYMUPDF_OK, lastCall,
                   prevCall, resetPending, arg, res, res2>>

\* lines 167-176: what the try block of the extract handler computes
Extraction(up, pdfOk) ==
    IF up.type = "image"
        THEN IF ~up.readable
                THEN [raised |-> TRUE, text |-> <<>>, calls |-> <<>>]
                ELSE LET r == extract_text_from_image(up.pages[1])
                     IN  [raised |-> r.how = "raise", text |-> r.val,
                          calls |-> <<[page |-> 1, have |-> 0]>>]
        ELSE extract_text_from_pdf(up, pdfOk)

\* lines 163-176
Extract(up) ==
    /\ IF up.type = "none"
          THEN UNCHANGED bill_text
          ELSE LET r == Extraction(up, PYMUPDF_OK)
               IN  IF r.raised
                      THEN UNCHANGED bill_text
                      ELSE bill_text' = r.text
    /\ lastOp' = Other
    /\ UNCHANGED <<chat_history, policy, composer, PYMUPDF_OK, lastCall,
                   prevCall, resetPending, arg, res, res2>>

\* a reset that keeps the context message
Reset_KeepContext ==
    /\ chat_history' = (IF chat_history = <<>> THEN <<>> ELSE <<chat_history[1]>>)
    /\ composer' = <<>>
    /\ resetPending' = TRUE
    /\ lastOp' = Op("reset", "done")
    /\ UNCHANGED <<bill_text, policy, PYMUPDF_OK, lastCall, prevCall,
                   arg, res, res2>>

\* lines 247-250, with the rerun clearing the composer (lines 224-226)
Reset ==
    /\ chat_history' = <<>>
    /\ composer' = <<>>
    /\ resetPending' = TRUE
    /\ lastOp' = Op("reset", "done")
    /\ UNCHANGED <<bill_text, policy, PYMUPDF_OK, lastCall, prevCall,
                   arg, res, res2>>

\* lines 252-266, with the rerun clearing the composer after a success
Send(chat) ==
    /\ Len(chat_history) < MaxHist
    /\ LET text == strip(composer)
       IN  IF text = <<>>
              THEN /\ lastOp' = Op("send", "blank")
                   /\ UNCHANGED <<chat_history, composer, lastCall, prevCall,
                                  resetPending>>
              ELSE LET r == chat_with_history(chat_history, policy, bill_text,
                                              text, chat)
                   IN  /\ chat_history' = r.history
                       /\ prevCall' = lastCall
                       /\ lastCall' = [made |-> TRUE, sys |-> r.given[1].content,
                                       bill |-> bill_text]
                       /\ IF r.raised
                             THEN /\ lastOp' = [op |-> "send", outcome |-> "failed",
                                                text |-> text, reply |-> <<>>,
                                                given |-> r.given]
                                  /\ UNCHANGED <<composer, resetPending>>
                             ELSE /\ lastOp' = [op |-> "send", outcome |-> "ok",
                                                text |-> text, reply |-> r.reply,
                                                given |-> r.given]
                                  /\ composer' = <<>>
                                  /\ resetPending' = FALSE
    /\ UNCHANGED <<bill_text, policy, PYMUPDF_OK, arg, res, res2>>

Next ==
    \/ \E t \in ComposerTexts : Type(t)
    \/ \E p \in Policies : SelectPolicy(p)
    \/ Clear
    \/ \E up \in Uploads : Extract(up)
    \/ Reset
    \/ \E chat \in ChatOutcomes : Send(chat)

Spec == Init /\ [][Next]_vars

\* ----------------------------------------------------------------------
\* Properties of the session (checked under Spec)
\* ----------------------------------------------------------------------
\* the step is a send that reached the chat client
SendStep == lastOp'.op = "send" /\ lastOp'.outcome \in {"ok", "failed"}
SendOkStep == lastOp'.op = "send" /\ lastOp'.outcome = "ok"
SendFailedStep == lastOp'.op = "send" /\ lastOp'.outcome = "failed"
ResetStep == lastOp'.op = "reset"

FreshContext == Message("system", system_msg(policy, bill_text))

\* C1: the history is empty, or message 0 is the one system message and
\* every later message is a user or an assistant message.
C1_HistoryShape ==
    \/ chat_history = <<>>
    \/ /\ chat_history[1].role = "system"
       /\ \A i \in 2..Len(chat_history) :
              chat_history[i].role \in {"user", "assistant"}

\* C1 witness: a send has run on a history that already held turns
C1_Witness ==
    /\ lastOp.op = "send"
    /\ Len(chat_history) >= 4
    /\ \E i \in 2..Len(chat_history) : chat_history[i].role = "assistant"

\* C2: every chat invocation is given, as message 0, the context built
\* from the policy and bill text current at that send; two invocations
\* made with different bill text are given different message 0 content;
\* and a send leaves the earlier turns as they were, in the history and in
\* what it gives to the chat client.
C2_ContextFreshness ==
    /\ [](/\ (lastOp.op = "send" /\ lastOp.outcome \in {"ok", "failed"})
                => /\ lastOp.given[1] = FreshContext
                   /\ lastCall.sys = system_msg(policy, bill_text)
                   /\ lastCall.bill = bill_text
          /\ (prevCall.made /\ lastCall.made /\ prevCall.bill # lastCall.bill)
                => prevCall.sys # lastCall.sys)
    /\ [][SendStep =>
            \A i \in 2..Len(chat_history) :
                /\ chat_history'[i] = chat_history[i]
                /\ lastOp'.given[i] = chat_history[i]]_vars

\* C2 witness: two invocations with different bill text, the second made
\* on a history that held earlier turns
C2_Witness ==
    /\ prevCall.made /\ lastCall.made
    /\ prevCall.bill # lastCall.bill
    /\ lastOp.op = "send" /\ lastOp.outcome = "ok"
    /\ Len(chat_history) >= 5

\* C3: a successful send on an Active history of length n keeps elements
\* 1..n-1, appends the user message and then the assistant message holding
\* the normalized reply it returns, and invokes the chat client once, with
\* the history that ends in the new user message.
C3_SendFrame ==
    [][(SendOkStep /\ chat_history # <<>>) =>
        LET n == Len(chat_history)
        IN  /\ Len(chat_history') = n + 2
            /\ chat_history'[1].role = "system"
            /\ \A i \in 2..n : chat_history'[i] = chat_history[i]
            /\ lastOp'.text = strip(composer)
            /\ chat_history'[n + 1] = Message("user", lastOp'.text)
            /\ chat_history'[n + 2] = Message("assistant", lastOp'.reply)
            /\ lastOp'.reply = strip(lastOp'.reply)
            /\ lastOp'.given = SubSeq(chat_history', 1, n + 1)
            /\ prevCall' = lastCall /\ lastCall'.made]_vars

\* C3 witness: a successful send was made on an Active history
C3_Witness ==
    /\ lastOp.op = "send" /\ lastOp.outcome = "ok"
    /\ Len(chat_history) >= 5
    /\ chat_history[Len(chat_history)].role = "assistant"

\* C4 as stated: reset empties the history and the first successful send
\* after it leaves exactly [system, user, assistant].
C4_Original ==
    /\ [][ResetStep => chat_history' = <<>>]_vars
    /\ [][(resetPending /\ SendOkStep) =>
            chat_history' = <<FreshContext, Message("user", lastOp'.text),
                              Message("assistant", lastOp'.reply)>>]_vars

\* C4 amended: reset empties the history; a successful send on the empty
\* history leaves exactly [system, user, assistant]; the first successful
\* send after a reset leaves the fresh system message, then only the user
\* messages of the sends that failed since the reset, then the new user
\* message and its reply.
C4_ResetClears ==
    /\ [][ResetStep => chat_history' = <<>>]_vars
    /\ [][(chat_history = <<>> /\ SendOkStep) =>
            chat_history' = <<FreshContext, Message("user", lastOp'.text),
                              Message("assistant", lastOp'.reply)>>]_vars
    /\ [][(resetPending /\ SendOkStep) =>
            LET m == Len(chat_history')
            IN  /\ m >= 3
                /\ chat_history'[1] = FreshContext
                /\ \A i \in 2..(m - 1) : chat_history'[i].role = "user"
                /\ chat_history'[m - 1] = Message("user", lastOp'.text)
                /\ chat_history'[m] = Message("assistant", lastOp'.reply)]_vars

\* C4 witness: after earlier invocations and a reset, a successful send
\* has rebuilt the history from nothing
C4_Witness ==
    /\ prevCall.made
    /\ lastOp.op = "send" /\ lastOp.outcome = "ok"
    /\ Len(chat_history) = 3
    /\ ~resetPending

\* C10: a failing chat invocation reaches the handler as a failure and
\* leaves the refreshed message 0 and the new user message in the history,
\* with no reply; a successful send right after it leaves two consecutive
\* user messages before the reply.
C10_NoRollback ==
    /\ [][SendFailedStep =>
            LET n == Len(chat_history)
                m == Len(chat_history')
            IN  /\ m = (IF n = 0 THEN 2 ELSE n + 1)
                /\ chat_history'[1] = FreshContext
                /\ \A i \in 2..n : chat_history'[i] = chat_history[i]
                /\ chat_history'[m] = Message("user", strip(composer))
                /\ composer' = composer]_vars
    /\ [][(lastOp.op = "send" /\ lastOp.outcome = "failed" /\ SendOkStep) =>
            LET m == Len(chat_history')
            IN  /\ m = Len(chat_history) + 2
                /\ chat_history'[m - 2].role = "user"
                /\ chat_history'[m - 1].role = "user"
                /\ chat_history'[m].role = "assistant"]_vars

\* C10 witness: a successful send has followed a failed one
C10_Witness ==
    /\ lastOp.op = "send" /\ lastOp.outcome = "ok"
    /\ \E i \in 2..(Len(chat_history) - 2) :
          /\ chat_history[i].role = "user"
          /\ chat_history[i + 1].role = "user"
          /\ chat_history[i + 2].role = "assistant"
          /\ i + 2 = Len(chat_history)

\* ----------------------------------------------------------------------
\* The pure functions, each applied to inputs drawn from a bounded set
\* ----------------------------------------------------------------------
NotRun == [done |-> FALSE, val |-> <<>>]
Ran(v) == [done |-> TRUE, val |-> v]

\* the session part of the state, unused by these specifications
IdleSession ==
    /\ chat_history = <<>>
    /\ bill_text = <<>>
    /\ policy = CHOOSE p \in Policies : p.insurer = "Acme"
    /\ composer = <<>>
    /\ lastOp = NoOp
    /\ lastCall = NoCallYet
    /\ prevCall = NoCallYet
    /\ resetPending = FALSE

\* ---------------- _resp_text ----------------
MsgText == <<" ", "m">>
FlatText == <<"t", " ">>
TopText == <<"c", "\n">>
ReprText == <<" ", "<", "r", ">">>

FieldValues(t) == {Absent, None, t}

Candidates ==
    {ch \in [msg : {"absent", "object", "dict"},
             msgContent : FieldValues(MsgText),
             text : FieldValues(FlatText)] :
        ch.msg = "absent" => ch.msgContent = Absent}

\* every response shape: an object or a dict, without choices, with an
\* empty list of choices or with one candidate; a dict has no attributes
Responses ==
    {r \in [kind : {"obj", "dict"},
            hasChoices : BOOLEAN,
            choices : {<<>>} \cup {<<ch>> : ch \in Candidates},
            content : FieldValues(TopText),
            repr : {ReprText}] :
        /\ ~r.hasChoices => r.choices = <<>>
        /\ r.kind = "dict" => r.content = Absent}

InitNorm ==
    /\ IdleSession
    /\ PYMUPDF_OK = TRUE
    /\ arg \in Responses
    /\ res = NotRun
    /\ res2 = NotRun

Normalize ==
    /\ ~res.done
    /\ res' = Ran(_resp_text(arg))
    /\ UNCHANGED <<sessionVars, PYMUPDF_OK, arg, res2>>

SpecNorm == InitNorm /\ [][Normalize]_vars

Usable(v) == v # Absent /\ v # None

\* the shapes of a response, in the order the normalizer is said to try them
ShapeMessage(r) ==
    IF ~r.hasChoices \/ r.choices = <<>> THEN Absent
    ELSE LET ch == r.choices[1]
         IN  IF r.kind = "obj" /\ ch.msg = "object" THEN ch.msgContent
             ELSE IF r.kind = "dict" /\ ch.msg = "dict"
                 THEN (IF ch.msgContent = Absent THEN <<>> ELSE ch.msgContent)
             ELSE Absent

ShapeFlatText(r) ==
    IF ~r.hasChoices \/ r.choices = <<>> THEN Absent ELSE r.choices[1].text

ShapeTopLevel(r) == r.content

\* C5 as stated: the result is the trimmed first shape that can be read,
\* in the order message content, flat text, top-level text, string
\* conversion; a shape that fails to be read counts as absent.
C5_FallbackOrder ==
    res.done =>
        res.val =
            strip(IF Usable(ShapeMessage(arg)) THEN ShapeMessage(arg)
                  ELSE IF Usable(ShapeFlatText(arg)) THEN ShapeFlatText(arg)
                  ELSE IF Usable(ShapeTopLevel(arg)) THEN ShapeTopLevel(arg)
                  ELSE arg.repr)

\* ---------------- extract_text_from_pdf ----------------
NativeTexts == {<<>>, <<" ">>, <<"a">>, <<"b", "\n">>}

VisionOutcomes ==
    {[ok |-> FALSE, resp |-> ObjContent(<<>>)],
     [ok |-> TRUE, resp |-> ObjContent(<<" ", "x">>)],
     [ok |-> TRUE, resp |-> ObjMessage(<<"y">>)]}

Pages ==
    {[native |-> t, ok |-> v.ok, resp |-> v.resp] :
        t \in NativeTexts, v \in VisionOutcomes}

PageSeqs == UNION {[1..n -> Pages] : n \in 0..MaxPages}

PdfFiles ==
    {[type |-> "pdf", readable |-> rd, pages |-> ps] :
        rd \in BOOLEAN, ps \in PageSeqs}

InitPdf ==
    /\ IdleSession
    /\ PYMUPDF_OK \in BOOLEAN
    /\ arg \in PdfFiles
    /\ res = NotRun
    /\ res2 = NotRun

ExtractPdf ==
    /\ ~res.done
    /\ res' = Ran(extract_text_from_pdf(arg, PYMUPDF_OK))
    /\ UNCHANGED <<sessionVars, PYMUPDF_OK, arg, res2>>

SpecPdf == InitPdf /\ [][ExtractPdf]_vars

\* number of vision calls logged for page i
CallsFor(calls, i) == Cardinality({k \in 1..Len(calls) : calls[k].page = i})

Blank(t) == \A j \in 1..Len(t) : IsSpace(t[j])

\* the PDF library is there and extract_text_from_pdf has run on a
\* readable document
PdfRan == res.done /\ PYMUPDF_OK /\ arg.readable

\* C6 as stated, for an extraction that returns: a page with non-empty
\* native text has no vision call, a page with empty native text has
\* exactly one, and the calls number the pages with empty native text.
C6_Original ==
    (PdfRan /\ ~res.val.raised) =>
        /\ \A i \in 1..Len(arg.pages) :
              CallsFor(res.val.calls, i) =
                  (IF arg.pages[i].native = <<>> THEN 1 ELSE 0)
        /\ Len(res.val.calls) =
              Cardinality({i \in 1..Len(arg.pages) : arg.pages[i].native = <<>>})

\* C6 amended: a page whose native text has a character other than white
\* space has no vision call; a page whose native text is empty or only
\* white space has exactly one, unless a vision call for an earlier page
\* failed and ended the extraction; an extraction that returns has made as
\* many calls as there are such pages.
C6_FallbackCorrectness ==
    PdfRan =>
        LET calls == res.val.calls
            last == IF res.val.raised THEN calls[Len(calls)].page
                                      ELSE Len(arg.pages)
        IN  /\ res.val.raised => calls # <<>>
            /\ \A i \in 1..Len(arg.pages) :
                  CallsFor(calls, i) =
                      (IF Blank(arg.pages[i].native) /\ i <= last THEN 1 ELSE 0)
            /\ ~res.val.raised =>
                  Len(calls) =
                      Cardinality({i \in 1..Len(arg.pages) :
                                      Blank(arg.pages[i].native)})

\* C6 witness: an extraction returned for a document with a page of text,
\* and a page of white space only that went through the vision client
C6_Witness ==
    /\ PdfRan /\ ~res.val.raised
    /\ \E i, j \in 1..Len(arg.pages) :
          /\ arg.pages[i].native # <<>> /\ Blank(arg.pages[i].native)
          /\ ~Blank(arg.pages[j].native)
          /\ CallsFor(res.val.calls, i) = 1
          /\ CallsFor(res.val.calls, j) = 0

\* the text a page contributes
PageText(pg) == IF Blank(pg.native) THEN _resp_text(pg.resp) ELSE pg.native

\* the texts of pages 1..n, in page order, a blank line between two pages
RECURSIVE InPageOrder(_, _)
InPageOrder(pages, n) ==
    IF n = 0 THEN <<>>
    ELSE IF n = 1 THEN PageText(pages[1])
    ELSE InPageOrder(pages, n - 1) \o <<"\n", "\n">> \o PageText(pages[n])

\* C7: an extraction that returns gives the page texts in page order
\* separated by "\n\n"; the vision calls are issued in increasing page
\* order, each after the texts of all earlier pages have been collected.
C7_PageOrder ==
    PdfRan =>
        /\ ~res.val.raised =>
              res.val.text = InPageOrder(arg.pages, Len(arg.pages))
        /\ \A k \in 1..Len(res.val.calls) :
              /\ res.val.calls[k].have = res.val.calls[k].page - 1
              /\ \A l \in 1..(k - 1) :
                    res.val.calls[l].page < res.val.calls[k].page

\* C7 witness: a document of at least two different pages, one of them
\* scanned, has been extracted
C7_Witness ==
    /\ PdfRan /\ ~res.val.raised
    /\ Len(arg.pages) >= 2
    /\ PageText(arg.pages[1]) # PageText(arg.pages[2])
    /\ \E k \in 1..Len(res.val.calls) : res.val.calls[k].page = 2

\* ----------------------------------------------------------------------
\* Assistant output formatter: app.py fmt_money_blocks
\* ----------------------------------------------------------------------
Digits == {"0", "1", "2", "3", "4", "5", "6", "7", "8", "9"}
IsDigit(c) == c \in Digits

\* first position from p on that holds no white space (Len(s) + 1 if none)
RECURSIVE RunEnd(_, _)
RunEnd(s, p) == IF p <= Len(s) /\ IsSpace(s[p]) THEN RunEnd(s, p + 1) ELSE p

\* first position from p on that holds no digit
RECURSIVE DigitsEnd(_, _)
DigitsEnd(s, p) == IF p <= Len(s) /\ IsDigit(s[p]) THEN DigitsEnd(s, p + 1) ELSE p

\* the lookahead (?=(\d+\.\s)) at position e
NumberAhead(s, e) ==
    /\ e <= Len(s) /\ IsDigit(s[e])
    /\ LET q == DigitsEnd(s, e)
       IN  q + 1 <= Len(s) /\ s[q] = "." /\ IsSpace(s[q + 1])

\* line 95: re.sub(r'\s*(?<!^)(?=(\d+\.\s))', '\n', s) from position p on.
\* The white space before a numbered point is one match; the empty match
\* that follows it at the digit is replaced as well.
RECURSIVE NumberedOnOwnLine(_, _)
NumberedOnOwnLine(s, p) ==
    IF p > Len(s) THEN <<>>
    ELSE LET e == RunEnd(s, p)
         IN  IF e > 1 /\ NumberAhead(s, e)
                 THEN (IF e > p THEN <<"\n", "\n">> ELSE <<"\n">>)
                          \o <<s[e]>> \o NumberedOnOwnLine(s, e + 1)
                 ELSE <<s[p]>> \o NumberedOnOwnLine(s, p + 1)

\* line 98: re.sub(r'\.\s+', '. ', s) from position p on
RECURSIVE SpaceAfterPeriod(_, _)
SpaceAfterPeriod(s, p) ==
    IF p > Len(s) THEN <<>>
    ELSE IF s[p] = "." /\ p < Len(s) /\ IsSpace(s[p + 1])
        THEN <<".", " ">> \o SpaceAfterPeriod(s, RunEnd(s, p + 1))
    ELSE <<s[p]>> \o SpaceAfterPeriod(s, p + 1)

\* whether the symbols of lit stand in s at position p
StartsAt(s, p, lit) ==
    /\ p + Len(lit) - 1 <= Len(s)
    /\ \A k \in 1..Len(lit) : s[p + k - 1] = lit[k]

\* s.replace(old, new) from position p on
RECURSIVE replace(_, _, _, _)
replace(s, p, old, new) ==
    IF p > Len(s) THEN <<>>
    ELSE IF StartsAt(s, p, old)
        THEN new \o replace(s, p + Len(old), old, new)
    ELSE <<s[p]>> \o replace(s, p + 1, old, new)

BreakdownLabel == <<"3", ".", " ", "Breakdown:">>

\* lines 105-109: bullets in the text after the first 'Breakdown:'
Bullets(s) ==
    IF \E i \in 1..Len(s) : s[i] = "Breakdown:"
        THEN LET at == CHOOSE i \in 1..Len(s) :
                          /\ s[i] = "Breakdown:"
                          /\ \A j \in 1..(i - 1) : s[j] # "Breakdown:"
                 head == SubSeq(s, 1, at - 1)
                 tail == SubSeq(s, at + 1, Len(s))
             IN  head \o <<"Breakdown:">>
                     \o replace(tail, 1, <<" ", "-", " ">>,
                                <<"\n", " ", " ", " ", "-", " ">>)
        ELSE s

\* first position from p on that holds no line break
RECURSIVE BreaksEnd(_, _)
BreaksEnd(s, p) == IF p <= Len(s) /\ s[p] = "\n" THEN BreaksEnd(s, p + 1) ELSE p

\* line 112: re.sub(r'\n{3,}', '\n\n', s) from position p on
RECURSIVE SquashBreaks(_, _)
SquashBreaks(s, p) ==
    IF p > Len(s) THEN <<>>
    ELSE LET e == BreaksEnd(s, p)
         IN  IF e - p >= 3 THEN <<"\n", "\n">> \o SquashBreaks(s, e)
             ELSE IF e > p THEN SubSeq(s, p, e - 1) \o SquashBreaks(s, e)
             ELSE <<s[p]>> \o SquashBreaks(s, p + 1)

\* lines 83-114
fmt_money_blocks(txt) ==
    LET s0 == strip(txt)
        s1 == NumberedOnOwnLine(s0, 1)
        s2 == SpaceAfterPeriod(s1, 1)
        s3 == replace(s2, 1, BreakdownLabel, BreakdownLabel \o <<"\n">>)
        s4 == Bullets(s3)
    IN  SquashBreaks(s4, 1)

FmtAlphabet == {"3", ".", " ", "\n", "-", "x", "Breakdown:"}

FmtTexts == UNION {[1..n -> FmtAlphabet] : n \in 0..MaxFmtLen}

InitFmt ==
    /\ IdleSession
    /\ PYMUPDF_OK = TRUE
    /\ arg \in FmtTexts
    /\ res = NotRun
    /\ res2 = NotRun

\* lines 207-208: the assistant text is formatted for display
Format ==
    /\ ~res.done
    /\ res' = Ran(fmt_money_blocks(arg))
    /\ UNCHANGED <<sessionVars, PYMUPDF_OK, arg, res2>>

\* the formatter applied to its own output
Reformat ==
    /\ res.done /\ ~res2.done
    /\ res2' = Ran(fmt_money_blocks(res.val))
    /\ UNCHANGED <<sessionVars, PYMUPDF_OK, arg, res>>

NextFmt == Format \/ Reformat

SpecFmt == InitFmt /\ [][NextFmt]_vars

\* C8 as stated: formatting the formatted text changes nothing.
C8_Idempotent == res2.done => res2.val = res.val

\* ----------------------------------------------------------------------
\* Financial text parser: main.py parse_total_amount
\* ----------------------------------------------------------------------
\* A label word ("net", "Net", "payable", ...) is one symbol standing for
\* its letters; "s" is any other letter.

Lower(c) ==
    CASE c = "Net" -> "net"
      [] c = "Payable" -> "payable"
      [] c = "Total" -> "total"
      [] OTHER -> c

\* \w: letters and digits
IsWordChar(c) == c \notin {" ", "\n", ":", ".", ","}

\* text.splitlines(), reading from position p on with cur the line so far
RECURSIVE SplitFrom(_, _, _)
SplitFrom(s, p, cur) ==
    IF p > Len(s) THEN (IF cur = <<>> THEN <<>> ELSE <<cur>>)
    ELSE IF s[p] = "\n" THEN <<cur>> \o SplitFrom(s, p + 1, <<>>)
    ELSE SplitFrom(s, p + 1, Append(cur, s[p]))

splitlines(s) == SplitFrom(s, 1, <<>>)

\* re.search of word a, any white space, word b, ignoring case
TwoWords(ln, a, b) ==
    \E i \in 1..Len(ln) : \E j \in (i + 1)..Len(ln) :
        /\ Lower(ln[i]) = a
        /\ Lower(ln[j]) = b
        /\ \A k \in (i + 1)..(j - 1) : IsSpace(ln[k])

\* re.search of \btotal\b, ignoring case
WholeWord(ln, w) ==
    \E i \in 1..Len(ln) :
        /\ Lower(ln[i]) = w
        /\ i = 1 \/ ~IsWordChar(ln[i - 1])
        /\ i = Len(ln) \/ ~IsWordChar(ln[i + 1])

\* lines 170-173, in the order they are tried
patterns == <<"net payable", "amount payable", "grand total", "total">>

\* line 176: re.search(p, ln, re.I)
search(pat, ln) ==
    CASE pat = "net payable" -> TwoWords(ln, "net", "payable")
      [] pat = "amount payable" -> TwoWords(ln, "amount", "payable")
      [] pat = "grand total" -> TwoWords(ln, "grand", "total")
      [] pat = "total" -> WholeWord(ln, "total")

\* end (exclusive) of the match of \b\d+(?:\.\d{1,2})?\b at p, 0 if none
NumberEnd(ln, p) ==
    LET n == Len(ln)
        q == DigitsEnd(ln, p)
        Boundary(e) == e > n \/ ~IsWordChar(ln[e])
        Digit(e) == e <= n /\ IsDigit(ln[e])
    IN  IF ~(p <= n /\ IsDigit(ln[p]) /\ (p = 1 \/ ~IsWordChar(ln[p - 1])))
            THEN 0
        ELSE IF q <= n /\ ln[q] = "." /\ Digit(q + 1) /\ Digit(q + 2)
                /\ Boundary(q + 3)
            THEN q + 3
        ELSE IF q <= n /\ ln[q] = "." /\ Digit(q + 1) /\ Boundary(q + 2)
            THEN q + 2
        ELSE IF Boundary(q) THEN q
        ELSE 0

\* line 177: re.findall(r'\b\d+(?:\.\d{1,2})?\b', ln) from position p on
RECURSIVE findall(_, _)
findall(ln, p) ==
    IF p > Len(ln) THEN <<>>
    ELSE LET e == NumberEnd(ln, p)
         IN  IF e = 0 THEN findall(ln, p + 1)
             ELSE <<SubSeq(ln, p, e - 1)>> \o findall(ln, e)

DigitValue(c) ==
    CASE c = "0" -> 0 [] c = "1" -> 1 [] c = "2" -> 2 [] c = "3" -> 3
      [] c = "4" -> 4 [] c = "5" -> 5 [] c = "6" -> 6 [] c = "7" -> 7
      [] c = "8" -> 8 [] c = "9" -> 9

\* value of a run of digits
RECURSIVE Whole(_)
Whole(ds) ==
    IF ds = <<>> THEN 0
    ELSE 10 * Whole(SubSeq(ds, 1, Len(ds) - 1)) + DigitValue(ds[Len(ds)])

\* float(token), in hundredths
float(tok) ==
    LET q == DigitsEnd(tok, 1)
        frac == SubSeq(tok, q + 1, Len(tok))
    IN  100 * Whole(SubSeq(tok, 1, q - 1))
            + (IF Len(frac) = 2 THEN Whole(frac)
               ELSE IF Len(frac) = 1 THEN 10 * Whole(frac)
               ELSE 0)

NoResult == [found |-> FALSE, value |-> 0]
Amount(v) == [found |-> TRUE, value |-> v]

\* lines 175-179: the lines from line i back to the first, for one pattern
RECURSIVE ScanLines(_, _, _)
ScanLines(pat, lines, i) ==
    IF i = 0 THEN NoResult
    ELSE LET vals == IF search(pat, lines[i]) THEN findall(lines[i], 1) ELSE <<>>
         IN  IF vals # <<>> THEN Amount(float(vals[Len(vals)]))
             ELSE ScanLines(pat, lines, i - 1)

\* lines 174-180: the patterns from the k-th on
RECURSIVE ScanPatterns(_, _)
ScanPatterns(lines, k) ==
    IF k > Len(patterns) THEN NoResult
    ELSE LET r == ScanLines(patterns[k], lines, Len(lines))
         IN  IF r.found THEN r ELSE ScanPatterns(lines, k + 1)

RECURSIVE Reversed(_)
Reversed(q) == IF q = <<>> THEN <<>> ELSE Append(Reversed(Tail(q)), Head(q))

\* the lines are scanned from the first one forward
parse_total_amount_Forward(text) == ScanPatterns(Reversed(splitlines(text)), 1)

\* lines 168-180
parse_total_amount(text) == ScanPatterns(splitlines(text), 1)

BillLabels ==
    {<<>>, <<"Net", " ", "Payable">>, <<"amount", "payable">>,
     <<"grand", " ", "total">>, <<"Total">>, <<"s", "total">>, <<"total", "s">>}

BillAmounts ==
    {<<>>, <<":", " ", "5", "0", "0", ".", "0", "0">>,
     <<":", " ", "4", "5", "0", ".", "0", "0">>, <<" ", "1", ",", "2", ".", "5">>}

BillLines == {l \o a : l \in BillLabels, a \in BillAmounts}

BillTexts == UNION {[1..n -> BillLines] : n \in 0..MaxLines}

\* the lines, each ended by a line break
RECURSIVE AsText(_)
AsText(lines) ==
    IF lines = <<>> THEN <<>> ELSE Head(lines) \o <<"\n">> \o AsText(Tail(lines))

InitTotal ==
    /\ IdleSession
    /\ PYMUPDF_OK = TRUE
    /\ arg \in BillTexts
    /\ res = NotRun
    /\ res2 = NotRun

ParseTotal ==
    /\ ~res.done
    /\ res' = Ran(parse_total_amount(AsText(arg)))
    /\ UNCHANGED <<sessionVars, PYMUPDF_OK, arg, res2>>

SpecTotal == InitTotal /\ [][ParseTotal]_vars

TotalLine == <<"Total", ":", " ", "5", "0", "0", ".", "0", "0">>
NetPayableLine == <<"Net", " ", "Payable", ":", " ", "4", "5", "0", ".", "0", "0">>

\* the lines that match the k-th label and carry a numeric token
Carrying(lines, k) ==
    {i \in 1..Len(lines) :
        search(patterns[k], lines[i]) /\ findall(lines[i], 1) # <<>>}

\* the lines that match the k-th label
Matching(lines, k) == {i \in 1..Len(lines) : search(patterns[k], lines[i])}

\* C9 as stated: a result is the last numeric token of the first matching
\* line found, that is of the last line matching the first label, in
\* priority order, that any line matches.
C9_Original ==
    (res.done /\ res.val.found) =>
        LET k == CHOOSE k \in 1..4 :
                    /\ Matching(arg, k) # {}
                    /\ \A j \in 1..(k - 1) : Matching(arg, j) = {}
            i == CHOOSE i \in Matching(arg, k) : \A j \in Matching(arg, k) : j <= i
            toks == findall(arg[i], 1)
        IN  toks # <<>> /\ res.val.value = float(toks[Len(toks)])

\* C9 amended: the result is the last numeric token of the first matching
\* line found that carries a numeric token, that is of the last such line
\* matching the first label, in priority order, that any such line matches;
\* it is 'no result' when no label line carries a token; and a text whose
\* only net-payable amount line is 'Net Payable: 450.00' gives 450.00 even
\* with a 'Total: 500.00' line before or after it.
C9_LabelPriority ==
    res.done =>
        /\ IF \A k \in 1..4 : Carrying(arg, k) = {}
              THEN res.val = NoResult
              ELSE LET k == CHOOSE k \in 1..4 :
                                /\ Carrying(arg, k) # {}
                                /\ \A j \in 1..(k - 1) : Carrying(arg, j) = {}
                       i == CHOOSE i \in Carrying(arg, k) :
                                \A j \in Carrying(arg, k) : j <= i
                       toks == findall(arg[i], 1)
                   IN  res.val = Amount(float(toks[Len(toks)]))
        /\ (/\ \E i \in 1..Len(arg) : arg[i] = TotalLine
            /\ \E i \in 1..Len(arg) : arg[i] = NetPayableLine
            /\ \A i \in Carrying(arg, 1) : arg[i] = NetPayableLine)
              => res.val = Amount(45000)

\* C9 witness: the total line stands after the net-payable line and the
\* net-payable amount is the result
C9_Witness ==
    /\ res.done
    /\ Len(arg) >= 2
    /\ arg[1] = NetPayableLine
    /\ arg[2] = TotalLine
    /\ Matching(arg, 1) = Carrying(arg, 1)
    /\ res.val = Amount(45000)

====
